---- MODULE Spec2Model ----
(***************************************************************************)
(* A model of the LSP bridge: LSPManager (src/src/lsp-manager.ts) and the  *)
(* two query tools that use it (DefinitionTool, ReferencesTool).           *)
(*                                                                         *)
(* The program runs on one JavaScript thread: the code between two awaits  *)
(* is one atomic step.  Every action below is one such step of one client  *)
(* call (a "task"), or one event of the environment (a backend's reply, a  *)
(* backend process exiting, a file changing on disk).                      *)
(*                                                                         *)
(* A MessageConnection is created once per spawned process, over that      *)
(* process's pipes, so a connection and its process share one identifier:  *)
(* the index of the process in the order of the spawn() calls.             *)
(***************************************************************************)
EXTENDS Naturals, Sequences, FiniteSets, TLC

(***************************************************************************)
(* Bounds of the model.                                                    *)
(***************************************************************************)
\* the client issues at most MaxCalls calls (initialize, tools, shutdown)
MaxCalls == 4
\* the environment disturbs the program at most MaxFaults times: a backend
\* process exits, a backend answers with an error, a file changes on disk
MaxFaults == 1

\* the slots for client calls that may be in flight at the same time
Tasks == {1, 2}

None == "none"
NoFile == "ENOENT"

(***************************************************************************)
(* LSP_CONFIGS, in declaration order (the order of Object.entries).        *)
(***************************************************************************)
LSP_CONFIGS ==
  << [lang |-> "python", command |-> "pylsp", args |-> <<>>,
      fileExtensions |-> <<".py">>],
     [lang |-> "go", command |-> "gopls", args |-> <<>>,
      fileExtensions |-> <<".go">>],
     [lang |-> "rust", command |-> "rust-analyzer", args |-> <<>>,
      fileExtensions |-> <<".rs">>],
     [lang |-> "typescript", command |-> "typescript-language-server",
      args |-> <<"--stdio">>,
      fileExtensions |-> <<".ts", ".tsx", ".js", ".jsx">>],
     [lang |-> "customdsl", command |-> "/path/to/custom-dsl-lsp",
      args |-> <<"--stdio">>,
      fileExtensions |-> <<".cdsl">>] >>

Range(s) == {s[i] : i \in 1..Len(s)}

ConfigLangs == {LSP_CONFIGS[i].lang : i \in 1..Len(LSP_CONFIGS)}

\* LSP_CONFIGS[language], for a language of the table
ConfigOf(language) ==
  LSP_CONFIGS[CHOOSE i \in 1..Len(LSP_CONFIGS) : LSP_CONFIGS[i].lang = language]

(***************************************************************************)
(* A JavaScript Map: a sequence of <<key, value>> in insertion order.      *)
(***************************************************************************)
MapHas(m, k) == \E i \in 1..Len(m) : m[i][1] = k
MapGet(m, k) == m[CHOOSE i \in 1..Len(m) : m[i][1] = k][2]
\* Map.set with a slip: the insert loses the other entries
MapSetOnly(m, k, v) == << << k, v >> >>

MapSet(m, k, v) ==
  IF MapHas(m, k)
    THEN [i \in 1..Len(m) |-> IF m[i][1] = k THEN <<k, v>> ELSE m[i]]
    ELSE Append(m, <<k, v>>)

(***************************************************************************)
(* Paths.  A path is its name and its extension; path.extname returns the  *)
(* extension.                                                              *)
(***************************************************************************)
Path(name, ext) == [name |-> name, ext |-> ext]
extname(p) == p.ext

NoPath == Path("", "")
FileA == Path("/w1/a", ".py")
FileB == Path("/w1/b", ".py")
FileM == Path("/w1/m", ".go")
FileX == Path("/w1/notes", ".txt")
FileD == Path("/w3/rules", ".cdsl")

\* the paths the client asks about
Files == {FileA, FileB, FileM, FileX, FileD}
\* the files that change on disk
Edited == {FileA}
\* the contents a file may have on disk
Contents == {"v1", "v2"}

\* the arguments of the client's initialize calls: the root, and the list
\* of languages ({} when the client leaves it out)
InitializeArgs ==
  { << "/w1", {} >>,
    << "/w1", {<< "python" >>} >>,
    << "/w1", {<< "cobol", "go" >>} >>,
    << "/w2", {<< "python" >>} >> }

(***************************************************************************)
(* detectLanguages: the scan of the workspace directory.  An entry of a    *)
(* directory has a name (dot: the name starts with '.'), the extension     *)
(* path.extname gives for the name, and, for a directory, its entries.     *)
(***************************************************************************)
ScanMaxDepth == 3
ScanMaxEntries == 100

FileEntry(ext) == [isDir |-> FALSE, dot |-> FALSE, ext |-> ext, entries |-> <<>>]
DirEntry(dot, ext, entries) ==
  [isDir |-> TRUE, dot |-> dot, ext |-> ext, entries |-> entries]

\* what fs.readdirSync finds under each root
Tree(root) ==
  IF root = "/w1"
    THEN << FileEntry(".txt"),
            DirEntry(FALSE, "", << FileEntry(".go"), FileEntry(".py") >>),
            DirEntry(TRUE, "", << FileEntry(".rs") >>) >>
    ELSE IF root = "/w3"
    THEN << FileEntry(".cdsl"),
            DirEntry(FALSE, ".go", << FileEntry(".txt") >>),
            DirEntry(TRUE, ".rs", << >>) >>
    ELSE << FileEntry(".py"),
            DirEntry(FALSE, "",
              << DirEntry(FALSE, "",
                   << DirEntry(FALSE, "",
                        << DirEntry(FALSE, "", << FileEntry(".go") >>) >>) >>) >>) >>

Min(a, b) == IF a < b THEN a ELSE b

\* languages.add(lang) for every config that lists ext, in table order
RECURSIVE AddLangs(_, _, _)
AddLangs(languages, ext, k) ==
  IF k > Len(LSP_CONFIGS) THEN languages
  ELSE AddLangs(
         IF ext \in Range(LSP_CONFIGS[k].fileExtensions)
            /\ LSP_CONFIGS[k].lang \notin Range(languages)
           THEN Append(languages, LSP_CONFIGS[k].lang)
           ELSE languages,
         ext, k + 1)

\* scanDir with a slip: directories whose name starts with '.' are scanned
RECURSIVE scanDirHidden(_, _, _, _)
scanDirHidden(files, k, depth, languages) ==
  IF depth > ScanMaxDepth THEN languages
  ELSE IF k > Min(Len(files), ScanMaxEntries) THEN languages
  ELSE LET file == files[k]
           after == IF file.isDir
                      THEN scanDirHidden(file.entries, 1, depth + 1, languages)
                      ELSE AddLangs(languages, file.ext, 1)
       IN  scanDirHidden(files, k + 1, depth, after)

\* scanDir(dir, depth), from entry k of the directory on; the result is the
\* Set `languages` in insertion order
RECURSIVE scanDir(_, _, _, _)
scanDir(files, k, depth, languages) ==
  IF depth > ScanMaxDepth THEN languages
  ELSE IF k > Min(Len(files), ScanMaxEntries) THEN languages
  ELSE LET file == files[k]
           after == IF file.isDir /\ ~file.dot
                      THEN scanDir(file.entries, 1, depth + 1, languages)
                      ELSE AddLangs(languages, file.ext, 1)
       IN  scanDir(files, k + 1, depth, after)

detectLanguages(rootPath) == scanDir(Tree(rootPath), 1, 0, <<>>)

(***************************************************************************)
(* getLanguageId                                                           *)
(***************************************************************************)
getLanguageId(filePath) ==
  LET ext == extname(filePath)
  IN  CASE ext = ".py"  -> "python"
        [] ext = ".go"  -> "go"
        [] ext = ".rs"  -> "rust"
        [] ext = ".ts"  -> "typescript"
        [] ext = ".tsx" -> "typescriptreact"
        [] ext = ".js"  -> "javascript"
        [] ext = ".jsx" -> "javascriptreact"
        [] OTHER        -> "plaintext"

(***************************************************************************)
(* The state.                                                              *)
(***************************************************************************)
VARIABLES
  servers,        \* LSPManager.servers: Map language -> connection
  processes,      \* LSPManager.processes: Map language -> process
  workspaceRoot,  \* LSPManager.workspaceRoot
  openDocuments,  \* LSPManager.openDocuments: Map filePath -> content
  spawned,        \* every process spawn() created, in order: language and cwd
  status,         \* status[p]: process p is "running", or has "exited" on its
                  \* own, or was "killed" by shutdown
  sent,           \* sent[p]: the messages written to connection p, in order
  disk,           \* the content of each file, or NoFile
  task,           \* task[t]: where client call t stands, and its locals
  calls,          \* the number of client calls made so far
  returned,       \* the client's last call that ended: how it ended and, for
                  \* initialize, its languages and the place in them it reached
  faults          \* the number of disturbances so far

vars == << servers, processes, workspaceRoot, openDocuments, spawned, status,
           sent, disk, task, calls, returned, faults >>

manager == << servers, processes, workspaceRoot, openDocuments >>

Procs == 1..Len(spawned)

Alive(p) == status[p] = "running"

Idle == [pc |-> "idle", op |-> None, file |-> NoPath, langs |-> <<>>, i |-> 0,
         conn |-> 0, content |-> None]

\* the outcomes of a call that ended
Ok == "ok"
ErrNoConfig == "No LSP configuration for language"
ErrNotInitialized == "LSP not initialized"
ErrNoServer == "No LSP server for file extension"
ErrRead == "ENOENT: no such file"
ErrResponse == "error response"
ErrClosed == "Connection is closed"
ErrUnknownTool == "Unknown tool"

\* a call that gives the client no result: it throws, or it is not a query
NoResult == [none |-> TRUE]

Init ==
  /\ servers = <<>>
  /\ processes = <<>>
  /\ workspaceRoot = ""
  /\ openDocuments = <<>>
  /\ spawned = <<>>
  /\ status = <<>>
  /\ sent = <<>>
  /\ disk = [f \in Files |-> "v1"]
  /\ task = [t \in Tasks |-> Idle]
  /\ calls = 0
  /\ returned = [op |-> None, outcome |-> None, langs |-> <<>>, i |-> 0,
                 result |-> NoResult]
  /\ faults = 0

\* Free with a slip: the handler takes no call while a request is pending
FreeWhenQuiet(t) ==
  /\ task[t].pc = "idle"
  /\ \A u \in Tasks : u < t => task[u].pc # "idle"
  /\ calls < MaxCalls
  /\ \A u \in Tasks : task[u].pc \notin {"hs_wait", "query_wait", "sd_wait"}

\* the client's next call takes the first free slot
Free(t) ==
  /\ task[t].pc = "idle"
  /\ \A u \in Tasks : u < t => task[u].pc # "idle"
  /\ calls < MaxCalls

\* the call of task t, with locals tk, returns (Ok) or throws (an error)
Return(t, tk, o) ==
  /\ task' = [task EXCEPT ![t] = Idle]
  /\ returned' = [op |-> tk.op, outcome |-> o, langs |-> tk.langs, i |-> tk.i,
                  result |-> NoResult]

\* connection.sendRequest / sendNotification wrote msg to connection p
Written(p, msg) == [sent EXCEPT ![p] = Append(@, msg)]

\* `file://${path}`
Uri(path) == << "file://", path >>

Request(method) == [method |-> method]
InitializeRequest(root) == [method |-> "initialize", rootUri |-> Uri(root)]
DidOpen(filePath, content) ==
  [method |-> "textDocument/didOpen", uri |-> Uri(filePath),
   languageId |-> getLanguageId(filePath), version |-> 1, text |-> content]
Query(method, filePath) == [method |-> method, uri |-> Uri(filePath)]

\* the LSP method each tool requests
ToolMethod(tool) ==
  IF tool = "goto_definition" THEN "textDocument/definition"
                              ELSE "textDocument/references"
Tools == {"goto_definition", "find_references"}

\* the arguments of the client's tool calls: the tool and the file
ToolArgs ==
  { << "goto_definition", FileA >>, << "goto_definition", FileB >>,
    << "find_references", FileM >>, << "find_references", FileX >> }

\* startLSP's caller with a slip: the loop over the languages stops one
\* short of the end
startLSPSkipsLast(t, tk, k, root) ==
  IF k >= Len(tk.langs)
    THEN /\ Return(t, tk, Ok)
         /\ UNCHANGED << processes, spawned, status, sent >>
  ELSE IF tk.langs[k] \notin ConfigLangs
    THEN /\ Return(t, [tk EXCEPT !.i = k], ErrNoConfig)
         /\ UNCHANGED << processes, spawned, status, sent >>
  ELSE LET language == tk.langs[k]
           config == ConfigOf(language)
           process == Len(spawned) + 1
       IN  /\ spawned' = Append(spawned,
                           [lang |-> language, command |-> config.command,
                            args |-> config.args, cwd |-> root])
           /\ status' = Append(status, "running")
           /\ processes' = MapSet(processes, language, process)
           /\ sent' = Append(sent, << InitializeRequest(root) >>)
           /\ task' = [task EXCEPT ![t] =
                         [tk EXCEPT !.pc = "hs_wait", !.i = k, !.conn = process]]
           /\ UNCHANGED returned

(***************************************************************************)
(* startLSP(language), up to its first await: the language is langs[k] of  *)
(* the initialize call with locals tk; root is this.workspaceRoot.  Past   *)
(* the end of the list, initialize returns.                                *)
(***************************************************************************)
startLSP(t, tk, k, root) ==
  IF k > Len(tk.langs)
    THEN /\ Return(t, tk, Ok)
         /\ UNCHANGED << processes, spawned, status, sent >>
  ELSE IF tk.langs[k] \notin ConfigLangs
    THEN /\ Return(t, [tk EXCEPT !.i = k], ErrNoConfig)
         /\ UNCHANGED << processes, spawned, status, sent >>
  ELSE LET language == tk.langs[k]
           config == ConfigOf(language)
           process == Len(spawned) + 1
       IN  /\ spawned' = Append(spawned,
                           [lang |-> language, command |-> config.command,
                            args |-> config.args, cwd |-> root])
           /\ status' = Append(status, "running")
           /\ processes' = MapSet(processes, language, process)
           /\ sent' = Append(sent, << InitializeRequest(root) >>)
           /\ task' = [task EXCEPT ![t] =
                         [tk EXCEPT !.pc = "hs_wait", !.i = k, !.conn = process]]
           /\ UNCHANGED returned

\* initialize(rootPath, languages?): languages is {list}, or {} when the
\* caller leaves it out
initialize(t, rootPath, languages) ==
  /\ Free(t)
  /\ calls' = calls + 1
  /\ workspaceRoot' = rootPath
  /\ LET langsToInit == IF languages = {} THEN detectLanguages(rootPath)
                                          ELSE CHOOSE l \in languages : TRUE
     IN  startLSP(t, [Idle EXCEPT !.op = "initialize", !.langs = langsToInit],
                  1, rootPath)
  /\ UNCHANGED << servers, openDocuments, disk, faults >>

\* the backend answers the initialize request: startLSP goes on to send the
\* initialized notification
HandshakeReply(t) ==
  /\ task[t].pc = "hs_wait"
  /\ Alive(task[t].conn)
  /\ sent' = Written(task[t].conn, Request("initialized"))
  /\ task' = [task EXCEPT ![t].pc = "hs_notify"]
  /\ UNCHANGED << manager, returned, spawned, status, disk, calls, faults >>

\* the initialized notification is written: startLSP registers the
\* connection and returns; initialize starts the next language
InitializedSent(t) ==
  /\ task[t].pc = "hs_notify"
  /\ servers' = MapSet(servers, task[t].langs[task[t].i], task[t].conn)
  /\ startLSP(t, task[t], task[t].i + 1, workspaceRoot)
  /\ UNCHANGED << workspaceRoot, openDocuments, disk, calls, faults >>

(***************************************************************************)
(* getConnection, ensureDocumentOpen and the tools' execute.               *)
(***************************************************************************)
\* FirstMatch with a slip: the first config's language when none matches
RECURSIVE FirstMatchOrFirst(_, _)
FirstMatchOrFirst(ext, k) ==
  IF k > Len(LSP_CONFIGS) THEN LSP_CONFIGS[1].lang
  ELSE IF ext \in Range(LSP_CONFIGS[k].fileExtensions)
    THEN LSP_CONFIGS[k].lang
    ELSE FirstMatchOrFirst(ext, k + 1)

\* FirstMatch with a slip: the loop starts at the second config
RECURSIVE FirstMatchFromSecond(_, _)
FirstMatchFromSecond(ext, k) ==
  IF k > Len(LSP_CONFIGS) THEN None
  ELSE IF k > 1 /\ ext \in Range(LSP_CONFIGS[k].fileExtensions)
    THEN LSP_CONFIGS[k].lang
    ELSE FirstMatchFromSecond(ext, k + 1)

\* the language of the first config that lists ext, or None
RECURSIVE FirstMatch(_, _)
FirstMatch(ext, k) ==
  IF k > Len(LSP_CONFIGS) THEN None
  ELSE IF ext \in Range(LSP_CONFIGS[k].fileExtensions)
    THEN LSP_CONFIGS[k].lang
    ELSE FirstMatch(ext, k + 1)

\* getConnection returned connection conn to the tool of task t: the tool
\* sends its request
sendQuery(t, tk, conn) ==
  IF Alive(conn)
    THEN /\ sent' = Written(conn, Query(ToolMethod(tk.op), tk.file))
         /\ task' = [task EXCEPT ![t] =
                       [tk EXCEPT !.pc = "query_wait", !.conn = conn,
                                  !.content = None]]
         /\ UNCHANGED returned
    ELSE /\ Return(t, tk, ErrClosed)
         /\ UNCHANGED sent

\* getConnection with a slip: a language without a session is skipped
\* (continue where the code throws), so the loop ends without a match
getConnectionSkips(filePath) ==
  LET lang == FirstMatch(extname(filePath), 1)
  IN  IF lang = None \/ ~MapHas(servers, lang)
        THEN [error |-> ErrNoServer, lang |-> None, conn |-> 0]
        ELSE [error |-> None, lang |-> lang, conn |-> MapGet(servers, lang)]

\* getConnection with a slip: the session is looked up in processes, where
\* startLSP puts it before the handshake
getConnectionUnready(filePath) ==
  LET lang == FirstMatch(extname(filePath), 1)
  IN  IF lang = None
        THEN [error |-> ErrNoServer, lang |-> None, conn |-> 0]
      ELSE IF ~MapHas(processes, lang)
        THEN [error |-> ErrNotInitialized, lang |-> lang, conn |-> 0]
      ELSE [error |-> None, lang |-> lang, conn |-> MapGet(processes, lang)]

\* getConnection(filePath), up to the call of ensureDocumentOpen: the
\* connection of the first language whose config lists the extension, or
\* the error thrown
getConnection(filePath) ==
  LET lang == FirstMatch(extname(filePath), 1)
  IN  IF lang = None
        THEN [error |-> ErrNoServer, lang |-> None, conn |-> 0]
      ELSE IF ~MapHas(servers, lang)
        THEN [error |-> ErrNotInitialized, lang |-> lang, conn |-> 0]
      ELSE [error |-> None, lang |-> lang, conn |-> MapGet(servers, lang)]

\* ensureDocumentOpen with a slip: the test is left out
alreadyOpenNever(filePath) == FALSE

\* ensureDocumentOpen's test: this.openDocuments.has(filePath)
alreadyOpen(filePath) == MapHas(openDocuments, filePath)

\* fs.readFileSync with a slip: a missing file reads as its disk entry
readFailsNever(filePath) == FALSE

\* fs.readFileSync(filePath, 'utf-8') throws: the file cannot be read
readFails(filePath) == disk[filePath] = NoFile

\* Tool.execute(lspManager, {filePath}), up to its first suspension
execute(t, tool, filePath) ==
  /\ Free(t)
  /\ calls' = calls + 1
  /\ LET tk == [Idle EXCEPT !.op = tool, !.file = filePath]
         got == getConnection(filePath)
     IN  IF got.error # None
           THEN /\ Return(t, tk, got.error)
                /\ UNCHANGED sent
         ELSE IF alreadyOpen(filePath)
           THEN sendQuery(t, tk, got.conn)
         ELSE IF readFails(filePath)
           THEN /\ Return(t, tk, ErrRead)
                /\ UNCHANGED sent
         ELSE IF ~Alive(got.conn)
           THEN /\ Return(t, tk, ErrClosed)
                /\ UNCHANGED sent
         ELSE /\ sent' = Written(got.conn, DidOpen(filePath, disk[filePath]))
              /\ task' = [task EXCEPT ![t] =
                            [tk EXCEPT !.pc = "open_wait", !.conn = got.conn,
                                       !.content = disk[filePath]]]
              /\ UNCHANGED returned
  /\ UNCHANGED << manager, spawned, status, disk, faults >>

\* the didOpen notification is written: ensureDocumentOpen records the
\* document, getConnection returns, the tool sends its request
DidOpenSent(t) ==
  /\ task[t].pc = "open_wait"
  /\ openDocuments' = MapSet(openDocuments, task[t].file, task[t].content)
  /\ sendQuery(t, task[t], task[t].conn)
  /\ UNCHANGED << servers, processes, workspaceRoot, spawned, status, disk,
                  calls, faults >>

(***************************************************************************)
(* The backend's replies to a tool's request, and what the tools make of   *)
(* them.  A reply is null, one Location, or a list of Locations.           *)
(***************************************************************************)
Position(line, character) == [line |-> line, character |-> character]
Location(filePath, start, end) ==
  [uri |-> Uri(filePath), range |-> [start |-> start, end |-> end]]

Loc1 == Location(FileA, Position(3, 4), Position(3, 9))
Loc2 == Location(FileB, Position(0, 0), Position(1, 2))

Null == [kind |-> "null"]
Single(loc) == [kind |-> "single", loc |-> loc]
List(locs) == [kind |-> "list", locs |-> locs]

\* the replies a backend gives to textDocument/definition
DefinitionReplies ==
  {Null, Single(Loc1), List(<<>>), List(<< Loc2, Loc1 >>)}
\* the replies a backend gives to textDocument/references
ReferencesReplies == {Null, List(<<>>), List(<< Loc1 >>), List(<< Loc2, Loc1 >>)}

\* loc.uri.replace('file://', '')
stripScheme(uri) == IF uri[1] = "file://" THEN uri[2] ELSE uri

\* DefinitionTool.execute with a slip: of a list, only the first location
\* is kept
DefinitionResultFirst(result) ==
  IF result.kind = "null" THEN [found |-> FALSE]
  ELSE LET locations == IF result.kind = "list"
                          THEN IF result.locs = << >> THEN << >>
                                                     ELSE << result.locs[1] >>
                          ELSE << result.loc >>
       IN  [found |-> TRUE,
            definitions |->
              [n \in 1..Len(locations) |->
                 [file |-> stripScheme(locations[n].uri),
                  line |-> locations[n].range.start.line,
                  character |-> locations[n].range.start.character,
                  endLine |-> locations[n].range.end.line,
                  endCharacter |-> locations[n].range.end.character]]]

\* DefinitionTool.execute, from the reply on
DefinitionResult(result) ==
  IF result.kind = "null" THEN [found |-> FALSE]
  ELSE LET locations == IF result.kind = "list" THEN result.locs
                                                ELSE << result.loc >>
       IN  [found |-> TRUE,
            definitions |->
              [n \in 1..Len(locations) |->
                 [file |-> stripScheme(locations[n].uri),
                  line |-> locations[n].range.start.line,
                  character |-> locations[n].range.start.character,
                  endLine |-> locations[n].range.end.line,
                  endCharacter |-> locations[n].range.end.character]]]

\* ReferencesTool.execute with a slip: only a null reply counts as nothing
\* found
ReferencesResultNullOnly(result) ==
  IF result.kind = "null"
    THEN [found |-> FALSE, count |-> 0]
    ELSE [found |-> TRUE,
          count |-> Len(result.locs),
          references |->
            [n \in 1..Len(result.locs) |->
               [file |-> stripScheme(result.locs[n].uri),
                line |-> result.locs[n].range.start.line,
                character |-> result.locs[n].range.start.character]]]

\* ReferencesTool.execute, from the reply on
ReferencesResult(result) ==
  IF result.kind = "null" \/ Len(result.locs) = 0
    THEN [found |-> FALSE, count |-> 0]
    ELSE [found |-> TRUE,
          count |-> Len(result.locs),
          references |->
            [n \in 1..Len(result.locs) |->
               [file |-> stripScheme(result.locs[n].uri),
                line |-> result.locs[n].range.start.line,
                character |-> result.locs[n].range.start.character]]]

\* the backend answers the tool's request with reply: the tool returns its
\* result
QueryReply(t, reply) ==
  /\ task[t].pc = "query_wait"
  /\ Alive(task[t].conn)
  /\ reply \in IF task[t].op = "goto_definition" THEN DefinitionReplies
                                                 ELSE ReferencesReplies
  /\ task' = [task EXCEPT ![t] = Idle]
  /\ returned' = [op |-> task[t].op, outcome |-> Ok, langs |-> task[t].langs,
                  i |-> task[t].i,
                  result |-> IF task[t].op = "goto_definition"
                               THEN DefinitionResult(reply)
                               ELSE ReferencesResult(reply)]
  /\ UNCHANGED << manager, spawned, status, sent, disk, calls, faults >>

(***************************************************************************)
(* The server's handlers: the names the tool listing advertises, and the   *)
(* names the tool-call handler has a case for (initialize_workspace calls  *)
(* initialize, the two others call execute); any other name reaches the    *)
(* default case.                                                           *)
(***************************************************************************)
ListedTools ==
  {"initialize_workspace", "goto_definition", "find_references",
   "get_diagnostics"}
HandledTools == {"initialize_workspace", "goto_definition", "find_references"}

\* the names the client calls that no case handles
OtherNames == {"get_diagnostics", "rename_symbol"}

\* the tool-call handler's default case
unknownTool(t, name) ==
  /\ Free(t)
  /\ name \notin HandledTools
  /\ calls' = calls + 1
  /\ Return(t, [Idle EXCEPT !.op = name], ErrUnknownTool)
  /\ UNCHANGED << manager, spawned, status, sent, disk, faults >>

(***************************************************************************)
(* shutdown: the loop over servers.entries(); k is the iterator's place.   *)
(***************************************************************************)
shutdownFrom(t, tk, k, statusNow) ==
  IF k > Len(servers)
    THEN /\ Return(t, tk, Ok)
         /\ UNCHANGED sent
  ELSE IF statusNow[servers[k][2]] # "running"
    THEN /\ Return(t, [tk EXCEPT !.i = k], ErrClosed)
         /\ UNCHANGED sent
  ELSE /\ sent' = Written(servers[k][2], Request("shutdown"))
       /\ task' = [task EXCEPT ![t] =
                     [tk EXCEPT !.pc = "sd_wait", !.i = k,
                                !.conn = servers[k][2]]]
       /\ UNCHANGED returned

shutdown(t) ==
  /\ Free(t)
  /\ calls' = calls + 1
  /\ shutdownFrom(t, [Idle EXCEPT !.op = "shutdown"], 1, status)
  /\ UNCHANGED << manager, spawned, status, disk, faults >>

\* the backend answers the shutdown request: shutdown sends exit
ShutdownReply(t) ==
  /\ task[t].pc = "sd_wait"
  /\ Alive(task[t].conn)
  /\ sent' = Written(task[t].conn, Request("exit"))
  /\ task' = [task EXCEPT ![t].pc = "sd_exit"]
  /\ UNCHANGED << manager, returned, spawned, status, disk, calls, faults >>

\* the exit notification is written: shutdown kills the process registered
\* for the language and goes on to the next entry
ExitSent(t) ==
  /\ task[t].pc = "sd_exit"
  /\ LET lang == servers[task[t].i][1]
         killed == IF MapHas(processes, lang)
                       /\ Alive(MapGet(processes, lang))
                     THEN [status EXCEPT ![MapGet(processes, lang)] = "killed"]
                     ELSE status
     IN  /\ status' = killed
         /\ shutdownFrom(t, task[t], task[t].i + 1, killed)
  /\ UNCHANGED << manager, spawned, disk, calls, faults >>

(***************************************************************************)
(* The environment.                                                        *)
(***************************************************************************)
\* the backend answers a pending request with an error response: the
\* awaiting call throws
ErrorReply(t) ==
  /\ task[t].pc \in {"hs_wait", "query_wait", "sd_wait"}
  /\ Alive(task[t].conn)
  /\ faults < MaxFaults
  /\ faults' = faults + 1
  /\ Return(t, task[t], ErrResponse)
  /\ UNCHANGED << manager, spawned, status, sent, disk, calls >>

\* ProcessExit with a slip: an exit handler restarts the backend at once
ProcessExitRespawns(p) ==
  /\ Alive(p)
  /\ faults < MaxFaults
  /\ faults' = faults + 1
  /\ status' = Append([status EXCEPT ![p] = "exited"], "running")
  /\ spawned' = Append(spawned, spawned[p])
  /\ sent' = Append(sent, << InitializeRequest(spawned[p].cwd) >>)
  /\ processes' = MapSet(processes, spawned[p].lang, Len(spawned) + 1)
  /\ UNCHANGED << servers, workspaceRoot, openDocuments, disk, task, calls,
                  returned >>

\* a backend process exits (a crash, or a kill from outside); the manager
\* registers no handler for it
ProcessExit(p) ==
  /\ Alive(p)
  /\ faults < MaxFaults
  /\ faults' = faults + 1
  /\ status' = [status EXCEPT ![p] = "exited"]
  /\ UNCHANGED << manager, spawned, sent, disk, task, calls, returned >>

\* a file changes on disk, or is removed
EditFile(f, c) ==
  /\ faults < MaxFaults
  /\ faults' = faults + 1
  /\ disk[f] # c
  /\ disk' = [disk EXCEPT ![f] = c]
  /\ UNCHANGED << manager, spawned, status, sent, task, calls, returned >>

\* the steps that go on with a call in flight
Continue ==
  \/ \E t \in Tasks : HandshakeReply(t)
  \/ \E t \in Tasks : InitializedSent(t)
  \/ \E t \in Tasks : DidOpenSent(t)
  \/ \E t \in Tasks, reply \in DefinitionReplies \cup ReferencesReplies :
       QueryReply(t, reply)
  \/ \E t \in Tasks : ShutdownReply(t)
  \/ \E t \in Tasks : ExitSent(t)

\* the disturbances
Disturb ==
  \/ \E t \in Tasks : ErrorReply(t)
  \/ \E p \in Procs : ProcessExit(p)
  \/ \E f \in Edited, c \in Contents \cup {NoFile} : EditFile(f, c)

Next ==
  \/ \E t \in Tasks, a \in InitializeArgs : initialize(t, a[1], a[2])
  \/ \E t \in Tasks, a \in ToolArgs : execute(t, a[1], a[2])
  \/ \E t \in Tasks : shutdown(t)
  \/ \E t \in Tasks, name \in OtherNames : unknownTool(t, name)
  \/ Continue
  \/ Disturb

Spec == Init /\ [][Next]_vars

(***************************************************************************)
(* The client makes its calls one after the other: a call starts when no   *)
(* other is in flight.                                                     *)
(***************************************************************************)
NoneInFlight == \A t \in Tasks : task[t].pc = "idle"

SeqNext ==
  \/ \E t \in Tasks, a \in InitializeArgs :
       NoneInFlight /\ initialize(t, a[1], a[2])
  \/ \E t \in Tasks, a \in ToolArgs : NoneInFlight /\ execute(t, a[1], a[2])
  \/ \E t \in Tasks : NoneInFlight /\ shutdown(t)
  \/ \E t \in Tasks, name \in OtherNames : NoneInFlight /\ unknownTool(t, name)
  \/ Continue
  \/ Disturb

SeqSpec == Init /\ [][SeqNext]_vars

(***************************************************************************)
(* Liveness.  The event loop runs every continuation whose awaited write   *)
(* has completed; nothing makes a backend answer.  The client makes at     *)
(* most LiveCalls calls.                                                   *)
(***************************************************************************)
LiveCalls == 2

LiveNext ==
  \/ \E t \in Tasks, a \in InitializeArgs :
       calls < LiveCalls /\ initialize(t, a[1], a[2])
  \/ \E t \in Tasks, a \in ToolArgs :
       calls < LiveCalls /\ execute(t, a[1], a[2])
  \/ \E t \in Tasks : calls < LiveCalls /\ shutdown(t)
  \/ \E t \in Tasks, name \in OtherNames :
       calls < LiveCalls /\ unknownTool(t, name)
  \/ Continue
  \/ Disturb

Fairness ==
  \A t \in Tasks : /\ WF_vars(InitializedSent(t))
                   /\ WF_vars(DidOpenSent(t))
                   /\ WF_vars(ExitSent(t))

FairSpec == Init /\ [][LiveNext]_vars /\ Fairness

(***************************************************************************)
(* A client with more workspaces and fewer calls: it has initialize scan   *)
(* any of the workspaces, asks about a file of each of two languages, and  *)
(* makes at most WideCalls calls.                                          *)
(***************************************************************************)
WideCalls == 2

ScanRoots == {"/w1", "/w2", "/w3"}
WideToolArgs == { << "goto_definition", FileA >>, << "goto_definition", FileD >> }

WideNext ==
  \/ \E t \in Tasks, root \in ScanRoots :
       calls < WideCalls /\ initialize(t, root, {})
  \/ \E t \in Tasks, a \in WideToolArgs :
       calls < WideCalls /\ execute(t, a[1], a[2])
  \/ \E t \in Tasks : HandshakeReply(t)
  \/ \E t \in Tasks : InitializedSent(t)
  \/ \E t \in Tasks : DidOpenSent(t)
  \/ \E t \in Tasks, reply \in DefinitionReplies : QueryReply(t, reply)
  \/ Disturb

WideSpec == Init /\ [][WideNext]_vars

(***************************************************************************)
(* Properties.                                                             *)
(***************************************************************************)
IsQuery(m) == m.method \in {ToolMethod(tool) : tool \in Tools}
IsDidOpen(m, f) == m.method = "textDocument/didOpen" /\ m.uri = Uri(f)

\* the places <<p, k>> of the messages written so far
Positions == UNION {{<< p, k >> : k \in 1..Len(sent[p])} : p \in Procs}
Message(pk) == sent[pk[1]][pk[2]]

\* some config lists the extension
Supported(ext) ==
  \E k \in 1..Len(LSP_CONFIGS) : ext \in Range(LSP_CONFIGS[k].fileExtensions)

\* C1: while a language has a registered session whose process runs,
\* starting that language again spawns nothing: the language keeps at most
\* one live backend process.
C1_OneProcessPerLanguage ==
  [][\A lang \in ConfigLangs :
       (MapHas(servers, lang) /\ Alive(MapGet(servers, lang)))
         => Cardinality({p \in 1..Len(spawned') :
              spawned'[p].lang = lang /\ status'[p] = "running"}) <= 1]_vars

C3_DidOpenBeforeQuery ==
  \A p \in Procs : \A k \in 1..Len(sent[p]) :
    IsQuery(sent[p][k])
      => \E j \in 1..(k - 1) :
           /\ sent[p][j].method = "textDocument/didOpen"
           /\ sent[p][j].uri = sent[p][k].uri

\* C4: when the client's calls follow one another, no connection gets more
\* than one didOpen for a file, and the snapshot stored for an open file is
\* the text of its didOpen, whatever the file has become on disk.
C4_OneDidOpen ==
  \A f \in Files :
    LET opens == {pk \in Positions : IsDidOpen(Message(pk), f)}
    IN  /\ \A pk \in opens, pj \in opens : pk[1] = pj[1] => pk = pj
        /\ MapHas(openDocuments, f)
             => /\ opens # {}
                /\ \A pk \in opens : Message(pk).text = MapGet(openDocuments, f)

\* two requests about FileA went to one connection after its one didOpen,
\* and the file on disk is no longer the snapshot
C4_Witness ==
  /\ MapHas(openDocuments, FileA)
  /\ disk[FileA] # MapGet(openDocuments, FileA)
  /\ \E p \in Procs :
       /\ Cardinality({k \in 1..Len(sent[p]) :
            IsQuery(sent[p][k]) /\ sent[p][k].uri = Uri(FileA)}) = 2
       /\ Cardinality({k \in 1..Len(sent[p]) :
            IsDidOpen(sent[p][k], FileA)}) = 1

\* C5: a tool call for a file whose extension no config lists fails with
\* "No LSP server for file extension" and has no other effect.
C5_UnsupportedNoEffect ==
  [][\A t \in Tasks, a \in ToolArgs :
       (execute(t, a[1], a[2]) /\ ~Supported(extname(a[2])))
         => /\ returned'.op = a[1]
            /\ returned'.outcome = ErrNoServer
            /\ task'[t].pc = "idle"
            /\ UNCHANGED << manager, spawned, status, sent >>]_vars

\* a tool call failed because no config lists the extension, while a
\* backend was running
C5_Witness ==
  /\ returned.op \in Tools
  /\ returned.outcome = ErrNoServer
  /\ \E p \in Procs : Alive(p)

\* C6: a tool call for a language whose registered process has exited on
\* its own does not use the dead session: it gets a freshly spawned process.
C6_FreshProcessAfterExit ==
  [][\A t \in Tasks, a \in ToolArgs :
       LET lang == FirstMatch(extname(a[2]), 1)
       IN  (/\ execute(t, a[1], a[2])
            /\ lang # None
            /\ MapHas(servers, lang)
            /\ status[MapGet(servers, lang)] = "exited")
             => /\ Len(spawned') > Len(spawned)
                /\ task'[t].pc # "idle"
                /\ task'[t].conn # MapGet(servers, lang)]_vars

\* a request awaits the answer of connection task[t].conn
Pending(t) == task[t].pc \in {"hs_wait", "query_wait", "sd_wait"}

\* C7: a call pending on a connection whose process has gone ends (with a
\* failure); it does not stay suspended forever.
C7_PendingFailsOnExit ==
  \A t \in Tasks :
    [](Pending(t) /\ ~Alive(task[t].conn) => <>(task[t].pc = "idle"))

\* C8: a tool's request that the (running) backend does not answer ends
\* with a timeout; the tool call does not wait forever.
C8_QueryTimesOut ==
  \A t \in Tasks :
    [](task[t].pc = "query_wait" /\ Alive(task[t].conn)
         => <>(task[t].pc # "query_wait" \/ ~Alive(task[t].conn)))

\* C9: a handshake that the (running) backend does not answer ends with a
\* timeout and the process is killed; initialize does not wait forever.
C9_HandshakeTimesOut ==
  \A t \in Tasks :
    [](task[t].pc = "hs_wait" /\ Alive(task[t].conn)
         => <>(task[t].pc # "hs_wait" \/ ~Alive(task[t].conn)))

\* C10: when an initialize call over languages that all have a config has
\* ended, every language of its list is registered, except one whose
\* handshake failed.
C10_OthersStillStarted ==
  (returned.op = "initialize" /\ Range(returned.langs) \subseteq ConfigLangs)
    => \A k \in 1..Len(returned.langs) :
         ~(returned.outcome = ErrResponse /\ k = returned.i)
           => MapHas(servers, returned.langs[k])

\* the connections registered in servers
Registered == {servers[k][2] : k \in 1..Len(servers)}

\* C11: when a backend answers the handshake with an error, the start
\* fails, its process is terminated, and no entry of processes or servers
\* remains for the language.
C11_FailedStartCleansUp ==
  [][\A t \in Tasks :
       (ErrorReply(t) /\ task[t].pc = "hs_wait")
         => LET lang == task[t].langs[task[t].i]
            IN  /\ status'[task[t].conn] # "running"
                /\ ~MapHas(processes', lang)
                /\ ~MapHas(servers', lang)]_vars

\* C12: a shutdown called right after a shutdown that completed succeeds,
\* writes nothing to any connection, and leaves the state as it was.
C12_ShutdownIdempotent ==
  [][\A t \in Tasks :
       (shutdown(t) /\ returned.op = "shutdown" /\ returned.outcome = Ok)
         => /\ task'[t].pc = "idle"
            /\ returned'.op = "shutdown"
            /\ returned'.outcome = Ok
            /\ UNCHANGED << manager, spawned, status, sent >>]_vars

\* C13: when a shutdown has ended, and no backend answered its shutdown
\* request with an error, it has succeeded and no registered session's
\* process runs any more, even when some backend had exited before.
C13_ShutdownAfterExit ==
  (NoneInFlight /\ returned.op = "shutdown" /\ returned.outcome # ErrResponse)
    => /\ returned.outcome = Ok
       /\ \A p \in Registered : ~Alive(p)

\* C14: once shutdown has sent a shutdown request, every registered
\* session's process is eventually terminated, whether or not the backend
\* acknowledges the request.
C14_ShutdownTerminatesAll ==
  \A t \in Tasks :
    [](task[t].pc = "sd_wait" => <>(\A p \in Registered : ~Alive(p)))

\* the handshake of connection p is done: the initialize request, then the
\* initialized notification, were written to it
HandshakeDone(p) ==
  /\ Len(sent[p]) >= 2
  /\ sent[p][1].method = "initialize"
  /\ sent[p][2].method = "initialized"

\* C15: a didOpen or a tool's request is written to a connection only after
\* its handshake; a registered connection has done its handshake, and a
\* connection does its handshake at most once, in one call.
C15_ReadyBeforeUse ==
  /\ \A p \in Procs :
       /\ \A k \in 1..Len(sent[p]) :
            (IsQuery(sent[p][k]) \/ sent[p][k].method = "textDocument/didOpen")
              => (k > 2 /\ HandshakeDone(p))
       /\ Cardinality({k \in 1..Len(sent[p]) :
            sent[p][k].method = "initialized"}) <= 1
  /\ \A p \in Registered : HandshakeDone(p)
  /\ \A t \in Tasks, u \in Tasks :
       (/\ t # u
        /\ task[t].pc \in {"hs_wait", "hs_notify"}
        /\ task[u].pc \in {"hs_wait", "hs_notify"})
         => task[t].conn # task[u].conn

\* a tool's request went to a registered session of a language while
\* another session of that language was still in its handshake
C15_Witness ==
  \E p \in Registered, t \in Tasks :
    /\ \E k \in 1..Len(sent[p]) : IsQuery(sent[p][k])
    /\ task[t].pc = "hs_wait"
    /\ task[t].conn # p
    /\ spawned[task[t].conn].lang = spawned[p].lang

\* shutdown has torn session p down: it wrote shutdown and exit to it, or
\* killed its process
Closed(p) ==
  \/ status[p] = "killed"
  \/ \E k \in 1..Len(sent[p]) : sent[p][k].method = "exit"

\* C16: when the client's calls follow one another, a tool call is never
\* handed a session that shutdown has closed: it writes nothing to such a
\* session and does not end with that session's "Connection is closed".
C16_NoUseAfterShutdown ==
  [][\A t \in Tasks, a \in ToolArgs :
       LET lang == FirstMatch(extname(a[2]), 1)
       IN  (/\ execute(t, a[1], a[2])
            /\ lang # None
            /\ MapHas(servers, lang)
            /\ Closed(MapGet(servers, lang)))
             => /\ task'[t].pc = "idle"
                /\ returned'.outcome # ErrClosed
                /\ sent' = sent]_vars

\* the handshake of a session of the language is in flight, and no session
\* of the language is registered
Starting(lang) ==
  /\ ~MapHas(servers, lang)
  /\ \E u \in Tasks : /\ task[u].pc \in {"hs_wait", "hs_notify"}
                      /\ task[u].langs[task[u].i] = lang

\* C17: a tool call for a language whose handshake is in flight does not
\* fail for that: it stays pending, to go on when the session is ready.
C17_WaitsWhileStarting ==
  [][\A t \in Tasks, a \in ToolArgs :
       LET lang == FirstMatch(extname(a[2]), 1)
       IN  (execute(t, a[1], a[2]) /\ lang # None /\ Starting(lang))
             => task'[t].pc # "idle"]_vars

\* the places in the table of the configs that list the extension
Matching(ext) ==
  {k \in 1..Len(LSP_CONFIGS) : ext \in Range(LSP_CONFIGS[k].fileExtensions)}

\* C18: a tool call is routed by the first config, in the table's order,
\* that lists the file's extension: with none, it fails with "No LSP server
\* for file extension"; when that language has no session, it fails with
\* "not initialized"; otherwise it uses that language's registered session
\* and no other.  A path has at most one record in openDocuments.
C18_FirstMatchRouting ==
  [][\A t \in Tasks, a \in ToolArgs :
       execute(t, a[1], a[2])
         => LET ks == Matching(extname(a[2]))
            IN  IF ks = {}
                  THEN returned'.outcome = ErrNoServer /\ task'[t].pc = "idle"
                ELSE LET first == CHOOSE k \in ks : \A j \in ks : k <= j
                         lang == LSP_CONFIGS[first].lang
                     IN  IF ~MapHas(servers, lang)
                           THEN /\ returned'.outcome = ErrNotInitialized
                                /\ task'[t].pc = "idle"
                         ELSE /\ task'[t].pc = "idle"
                                   => returned'.outcome \in {ErrRead, ErrClosed}
                              /\ task'[t].pc # "idle"
                                   => /\ task'[t].conn = MapGet(servers, lang)
                                      /\ spawned[task'[t].conn].lang = lang
                                      /\ \A p \in Procs :
                                           p # task'[t].conn
                                             => sent'[p] = sent[p]
                              /\ \A i \in 1..Len(openDocuments') :
                                   \A j \in 1..Len(openDocuments') :
                                     openDocuments'[i][1] = openDocuments'[j][1]
                                       => i = j]_vars

\* sessions of two languages are registered, and each got a tool's request
\* about a file of its own extension
C18_Witness ==
  \E p \in Registered, q \in Registered :
    /\ spawned[p].lang = "python"
    /\ spawned[q].lang = "go"
    /\ \E k \in 1..Len(sent[p]) :
         IsQuery(sent[p][k]) /\ sent[p][k].uri = Uri(FileA)
    /\ \E k \in 1..Len(sent[q]) :
         IsQuery(sent[q][k]) /\ sent[q][k].uri = Uri(FileM)

\* C19: a tool call for a file that is not open yet and cannot be read fails
\* with the read error before anything is written to the backend: no didOpen
\* is sent and openDocuments is unchanged.
C19_UnreadableNoEffect ==
  [][\A t \in Tasks, a \in ToolArgs :
       LET ks == Matching(extname(a[2]))
       IN  (/\ execute(t, a[1], a[2])
            /\ \E k \in ks : MapHas(servers, LSP_CONFIGS[k].lang)
            /\ ~MapHas(openDocuments, a[2])
            /\ disk[a[2]] = NoFile)
             => /\ task'[t].pc = "idle"
                /\ returned'.op = a[1]
                /\ returned'.outcome = ErrRead
                /\ UNCHANGED << manager, spawned, status, sent >>]_vars

\* a tool call failed on reading its file, while the file's language had a
\* running session and the file had no record
C19_Witness ==
  /\ returned.op \in Tools
  /\ returned.outcome = ErrRead
  /\ disk[FileA] = NoFile
  /\ ~MapHas(openDocuments, FileA)
  /\ MapHas(servers, "python")
  /\ Alive(MapGet(servers, "python"))

\* the extensions of the files a scan of entries at this depth may see:
\* those at most ScanMaxDepth directories down, among the first
\* ScanMaxEntries entries of their directory, none under a directory whose
\* name starts with '.'
RECURSIVE VisibleExts(_, _)
VisibleExts(entries, depth) ==
  IF depth > ScanMaxDepth THEN {}
  ELSE UNION { IF entries[k].isDir
                 THEN IF entries[k].dot
                        THEN {}
                        ELSE VisibleExts(entries[k].entries, depth + 1)
                 ELSE {entries[k].ext} :
               k \in 1..Min(Len(entries), ScanMaxEntries) }

\* the languages some visible file of the workspace belongs to
Detected(root) ==
  {LSP_CONFIGS[k].lang : k \in UNION {Matching(ext) :
                                        ext \in VisibleExts(Tree(root), 0)}}

C24_SessionsIndependent ==
  [][\A t \in Tasks, u \in Tasks :
       (t # u /\ Pending(t))
         => /\ (/\ task[u].pc = "idle"
                /\ \A w \in Tasks : w < u => task[w].pc # "idle"
                /\ calls < MaxCalls)
                 => \A a \in ToolArgs : ENABLED execute(u, a[1], a[2])
            /\ task[u].pc = "open_wait" => ENABLED DidOpenSent(u)
            /\ (task[u].pc = "query_wait" /\ Alive(task[u].conn))
                 => ENABLED QueryReply(u, Null)
            /\ \A a \in ToolArgs :
                 LET ks == Matching(extname(a[2]))
                 IN  (/\ execute(u, a[1], a[2])
                      /\ \E k \in ks :
                           /\ MapHas(servers, LSP_CONFIGS[k].lang)
                           /\ Alive(MapGet(servers, LSP_CONFIGS[k].lang))
                      /\ MapHas(openDocuments, a[2]) \/ disk[a[2]] # NoFile)
                       => /\ task'[u].pc \in {"open_wait", "query_wait"}
                          /\ Alive(task'[u].conn)
                          /\ task'[t] = task[t]]_vars

\* a request is pending on a running session of each of two languages
C24_Witness ==
  \E t \in Tasks, u \in Tasks :
    /\ task[t].pc = "query_wait"
    /\ task[u].pc = "query_wait"
    /\ Alive(task[t].conn)
    /\ Alive(task[u].conn)
    /\ spawned[task[t].conn].lang = "python"
    /\ spawned[task[u].conn].lang = "go"

\* the number of didOpen notifications for file f written to connection p
DidOpens(p, f) == Cardinality({k \in 1..Len(sent[p]) : IsDidOpen(sent[p][k], f)})

\* task t has a tool call in flight on a session, past getConnection's
\* lookup
InFlight(t) == task[t].pc \in {"open_wait", "query_wait"}

\* C25: with a tool call in flight on a session, a call for another file on
\* the same session that has to open its file writes one didOpen for it
\* and none for any other file; when its didOpen is written, its record is
\* added to openDocuments with the text it sent, every record already there
\* is kept as it was, and the records of both calls' files are there once
\* both are past the open.
C25_OverlappingOpens ==
  [][\A t \in Tasks, u \in Tasks :
       (t # u /\ InFlight(t))
         => /\ \A a \in ToolArgs :
                 (/\ execute(u, a[1], a[2])
                  /\ a[2] # task[t].file
                  /\ task'[u].pc = "open_wait"
                  /\ task'[u].conn = task[t].conn)
                   => /\ sent'[task[t].conn]
                           = Append(sent[task[t].conn],
                                    DidOpen(a[2], disk[a[2]]))
                      /\ openDocuments' = openDocuments
            /\ (/\ DidOpenSent(u)
                /\ task[u].conn = task[t].conn
                /\ task[u].file # task[t].file)
                 => /\ MapHas(openDocuments', task[u].file)
                    /\ MapGet(openDocuments', task[u].file) = task[u].content
                    /\ \A f \in Files :
                         (f # task[u].file /\ MapHas(openDocuments, f))
                           => /\ MapHas(openDocuments', f)
                              /\ MapGet(openDocuments', f)
                                   = MapGet(openDocuments, f)
                    /\ \A f \in Files :
                         Cardinality({k \in 1..Len(sent'[task[u].conn]) :
                           IsDidOpen(sent'[task[u].conn][k], f)})
                           = DidOpens(task[u].conn, f)
                    /\ task[t].pc = "query_wait"
                         => MapHas(openDocuments', task[t].file)]_vars

\* two calls for two files of one language overlapped on one session: the
\* second file's didOpen was written before the first file's request; each
\* file got one didOpen and both have their record
C25_Witness ==
  \E p \in Registered :
    /\ DidOpens(p, FileA) = 1
    /\ DidOpens(p, FileB) = 1
    /\ MapHas(openDocuments, FileA)
    /\ MapHas(openDocuments, FileB)
    /\ \E j \in 1..Len(sent[p]), k \in 1..Len(sent[p]) :
         /\ j < k
         /\ (IsDidOpen(sent[p][j], FileA) \/ IsDidOpen(sent[p][j], FileB))
         /\ (IsDidOpen(sent[p][k], FileA) \/ IsDidOpen(sent[p][k], FileB))
         /\ \A i \in 1..k : ~IsQuery(sent[p][i])

C27_FoundHasDefinition ==
  (/\ returned.op = "goto_definition"
   /\ returned.outcome = Ok
   /\ returned.result.found)
    => Len(returned.result.definitions) >= 1

\* C28: goto_definition's result for each reply: for null, found = false
\* and no definitions; for one location, found = true and that one
\* definition; for a list of n locations, found = true and n definitions, in
\* the list's order, each with its location's start and end positions.
C28_DefinitionNormalized ==
  [][\A t \in Tasks, reply \in DefinitionReplies :
       (QueryReply(t, reply) /\ task[t].op = "goto_definition")
         => LET r == returned'.result
                Same(d, loc) ==
                  /\ d.line = loc.range.start.line
                  /\ d.character = loc.range.start.character
                  /\ d.endLine = loc.range.end.line
                  /\ d.endCharacter = loc.range.end.character
            IN  /\ returned'.outcome = Ok
                /\ reply.kind = "null"
                     => r.found = FALSE /\ "definitions" \notin DOMAIN r
                /\ reply.kind = "single"
                     => /\ r.found = TRUE
                        /\ Len(r.definitions) = 1
                        /\ Same(r.definitions[1], reply.loc)
                /\ reply.kind = "list"
                     => /\ r.found = TRUE
                        /\ Len(r.definitions) = Len(reply.locs)
                        /\ \A n \in 1..Len(reply.locs) :
                             Same(r.definitions[n], reply.locs[n])]_vars

\* goto_definition returned the two definitions of a two-location reply,
\* in the reply's order
C28_Witness ==
  /\ returned.op = "goto_definition"
  /\ returned.outcome = Ok
  /\ returned.result.found
  /\ Len(returned.result.definitions) = 2
  /\ returned.result.definitions[1].line = Loc2.range.start.line
  /\ returned.result.definitions[2].line = Loc1.range.start.line

\* C29: find_references reports found = true exactly when the backend
\* replied with at least one location; count is the number of entries of
\* references, and when found = false count is 0 and there is no references
\* list.
C29_ReferencesCount ==
  [][\A t \in Tasks, reply \in ReferencesReplies :
       (QueryReply(t, reply) /\ task[t].op = "find_references")
         => LET r == returned'.result
                some == reply.kind = "list" /\ Len(reply.locs) >= 1
            IN  /\ r.found = some
                /\ some => /\ r.count = Len(r.references)
                           /\ r.count = Len(reply.locs)
                /\ ~some => r.count = 0 /\ "references" \notin DOMAIN r]_vars

\* find_references returned the two references of a two-location reply
C29_Witness ==
  /\ returned.op = "find_references"
  /\ returned.outcome = Ok
  /\ returned.result.found
  /\ returned.result.count = 2
  /\ Len(returned.result.references) = 2

\* C30: a call that ends with "Unknown tool" names a tool the listing does
\* not advertise.
C30_ListedToolsAccepted ==
  returned.outcome = ErrUnknownTool => returned.op \notin ListedTools

\* C31: a connection gets at most one didOpen for a file, also when calls
\* for the same file, not yet open, overlap.
C31_OneDidOpenOverlapping ==
  \A p \in Procs : \A f \in Files : DidOpens(p, f) <= 1

\* C32: the process registered for a language with a registered session is
\* the process that session is connected to.
C32_ProcessOfSession ==
  \A k \in 1..Len(servers) :
    /\ MapHas(processes, servers[k][1])
    /\ MapGet(processes, servers[k][1]) = servers[k][2]

\* C33: after a shutdown that completed normally, no process the manager
\* ever spawned is running.
C33_NoneAliveAfterShutdown ==
  (NoneInFlight /\ returned.op = "shutdown" /\ returned.outcome = Ok)
    => \A p \in Procs : ~Alive(p)

\* C34: a session a tool call gets from getConnection was spawned in the
\* manager's current workspaceRoot and was given that root as the rootUri
\* of its handshake.
C34_SessionOfCurrentRoot ==
  [][\A t \in Tasks : \A tool \in Tools : \A f \in Files :
       (execute(t, tool, f) /\ getConnection(f).error = None)
         => /\ spawned[getConnection(f).conn].cwd = workspaceRoot
            /\ sent[getConnection(f).conn][1].rootUri = Uri(workspaceRoot)]_vars

\* the places of a connection's messages of one method
Places(p, method) == {k \in 1..Len(sent[p]) : sent[p][k].method = method}

\* C35: a connection is written at most one shutdown request and at most
\* one exit notification, an exit only after a shutdown request, and a
\* process is killed only after the exit was written to its connection.
C35_TeardownOrder ==
  \A p \in Procs :
    /\ Cardinality(Places(p, "shutdown")) <= 1
    /\ Cardinality(Places(p, "exit")) <= 1
    /\ \A k \in Places(p, "exit") : \E j \in Places(p, "shutdown") : j < k
    /\ status[p] = "killed" => Places(p, "exit") # {}

\* C36: opening a document heals on the next call: after a tool call for a
\* path failed on sending (the path was left without a record), the next
\* call for the same path, its file readable, writes the didOpen and goes
\* on.  The find_references calls name FileM and a file without a backend,
\* so a find_references that failed on a closed connection was for FileM.
C36_FailedOpenHeals ==
  [][\A t \in Tasks :
       (/\ execute(t, "find_references", FileM)
        /\ returned.op = "find_references"
        /\ returned.outcome = ErrClosed
        /\ ~MapHas(openDocuments, FileM)
        /\ disk[FileM] # NoFile)
         => /\ task'[t].pc = "open_wait"
            /\ \E p \in Procs : DidOpens(p, FileM)' = DidOpens(p, FileM) + 1]_vars

\* the path a didOpen announces
OpenedPath(m) == m.uri[2]

\* C37: every didOpen carries version 1 and the text of the file, and one
\* for a file whose extension some config lists does not carry the
\* languageId 'plaintext'.
C37_DidOpenLanguageTag ==
  \A pk \in Positions :
    Message(pk).method = "textDocument/didOpen"
      => /\ Message(pk).version = 1
         /\ Message(pk).text \in Contents
         /\ Supported(extname(OpenedPath(Message(pk))))
              => Message(pk).languageId # "plaintext"

\* C38: the languages initialize starts without a list are the languages
\* of the files the scan may see: a directory's name counts for nothing.
C38_DetectsVisibleFiles ==
  [][\A t \in Tasks : \A root \in ScanRoots :
       initialize(t, root, {})
         => LET langs == IF task'[t].pc = "idle" THEN returned'.langs
                                                 ELSE task'[t].langs
            IN  Range(langs) = Detected(root)]_vars

====
